---- MODULE Spec2Model ----
(***************************************************************************)
(* gs_sync: the cloud function gsSyncFunction copies a column range of an  *)
(* origin worksheet into a destination worksheet through the Google Sheets *)
(* API.  The model has the two worksheets (the backend's state), and for   *)
(* each invocation of the handler its position between two awaited         *)
(* collaborator calls, its locals and the calls it has made so far.        *)
(* A second specification, SpecPlan, exercises the sizing planner          *)
(* (buildBatchUpdates / applyBatchUpdates / ensureSheetSize) on its own;   *)
(* SpecRange and SpecHash do the same for getReadA1NotationRange and       *)
(* generateHash.  SpecLive is the handler with every call settling,        *)
(* SpecRetry the handler with a request sent a second time, SpecRace two   *)
(* invocations at once on one destination.                                 *)
(***************************************************************************)
EXTENDS Integers, Sequences, FiniteSets, TLC

\* Bound of the model: the worksheets have at most MaxRows rows.
MaxRows == 2

\* The columns of the worksheets, A and B, by their 1-based index.
Cols == {1, 2}
LastCol == Cardinality(Cols)

Rows == 1..MaxRows

\* A cell holds a string or a number; Empty is the cell without a value (the
\* API reads it as "" inside a row and drops it at the end of a row).
Empty == ""
CellValues == {Empty, "x"}

\* A request field that the body does not carry.
Undefined == "<undefined>"
IdValues == {Undefined, "", "sheet"}

\* Concurrent invocations of the function (maxInstances allows several); the
\* sequential specification Spec runs one after the other in invocation 1.
Invocations == {1, 2}
Sequential == {1}

\* The destination spreadsheet has one worksheet, whose sheetId is "gid0".
WorksheetIds == {"gid0", "gid9"}
ExistingWorksheetId == "gid0"

VARIABLES
  origin,        \* origin[i]: the cells of the origin range's worksheet of invocation i
  dest,          \* the destination worksheet: [rowCount, columnCount, cells]
  zeroIsOpen,    \* the backend reads a GridRange's endColumnIndex 0 as "no bound"
  pc,            \* pc[i]: where invocation i stands
  body,          \* body[i]: the request body
  dataFromGs,    \* dataFromGs[i]: what the origin read returned
  sheetSize,     \* sheetSize[i]: what getSheetSize returned
  batchUpdates,  \* batchUpdates[i]: the requests of the initial batch update
  response,      \* response[i]: [status, text]; status 0 = none sent yet
  calls,         \* calls[i]: the collaborator calls of the run, in order
  before,        \* before[i]: the destination worksheet when the request arrived
  current,       \* SpecPlan: the worksheet's size
  required,      \* SpecPlan: [rows, cols] asked of the planner
  requests,      \* SpecPlan: the planner's last output
  stage,         \* SpecPlan: [at, planner]
  sheetInfo,     \* SpecRange: the descriptor handed to getReadA1NotationRange
  notation,      \* SpecRange: the address it returned
  datasets,      \* SpecHash: the two datasets handed to generateHash
  hashes         \* SpecHash: the two hashes it returned

syncVars == <<origin, dest, zeroIsOpen, pc, body, dataFromGs, sheetSize, batchUpdates,
              response, calls, before>>
planVars == <<current, required, requests, stage>>
utilVars == <<sheetInfo, notation, datasets, hashes>>
offVars == <<planVars, utilVars>>
vars == <<origin, dest, zeroIsOpen, pc, body, dataFromGs, sheetSize, batchUpdates,
          response, calls, before, current, required, requests, stage,
          sheetInfo, notation, datasets, hashes>>

----------------------------------------------------------------------------
\* Helpers

Max(S) == CHOOSE x \in S : \A y \in S : y <= x

EmptyCells == [r \in Rows |-> [c \in Cols |-> Empty]]
AllCells == [Rows -> [Cols -> CellValues]]

\* Index of the last cell of a row that has a value, 0 if none has.
LastNonEmpty(row) == Max({0} \cup {j \in 1..Len(row) : row[j] # Empty})

\* spreadsheets.values.get over `Name!<first>:<last>`: the rows of the range,
\* trailing empty cells and trailing empty rows left out; no data gives no
\* `values`, which the caller reads as [].
ValuesGet(cells, first, last) ==
  LET rowOf(r) == [j \in 1..(last - first + 1) |-> cells[r][first + j - 1]]
      n == Max({0} \cup {r \in Rows : LastNonEmpty(rowOf(r)) > 0})
  IN [r \in 1..n |-> SubSeq(rowOf(r), 1, LastNonEmpty(rowOf(r)))]

\* const rowCount = dataFromGs.length
RowCount(data) == Len(data)

\* const colCount = dataFromGs[0]?.length ?? 0
ColCount(data) == IF Len(data) = 0 THEN 0 ELSE Len(data[1])

\* if (!body.originSpreadsheetId || !body.destinationSpreadsheetId)
Falsy(v) == v = Undefined \/ v = ""
\* The check with the destination identifier forgotten.
MissingIdsOriginOnly(b) == Falsy(b.originSpreadsheetId)

MissingIds(b) == Falsy(b.originSpreadsheetId) \/ Falsy(b.destinationSpreadsheetId)

----------------------------------------------------------------------------
\* The sizing planner.  A request of a batch update is [kind, n]:
\*   "updateCells"  clear the values of columns [0, n)         (n = endColumnIndex)
\*   "rowCount"     set gridProperties.rowCount to n
\*   "columnCount"  set gridProperties.columnCount to n

NoSize == [rowCount |-> 0, columnCount |-> 0]
RowResize(n) == [kind |-> "rowCount", n |-> n]
ColumnResize(n) == [kind |-> "columnCount", n |-> n]
ClearValues(n) == [kind |-> "updateCells", n |-> n]

\* buildBatchUpdates with `>` for `>=` in both tests.
BuildBatchUpdatesStrict(size, rowCount, colCount) ==
  LET hasEnoughRows == size.rowCount > rowCount
      hasEnoughCols == size.columnCount > colCount
  IN (IF ~hasEnoughRows THEN <<RowResize(rowCount)>> ELSE <<>>)
     \o (IF ~hasEnoughCols THEN <<ColumnResize(colCount)>> ELSE <<>>)

\* buildBatchUpdates, after its size query: hasEnoughRows / hasEnoughCols.
BuildBatchUpdates(size, rowCount, colCount) ==
  LET hasEnoughRows == size.rowCount >= rowCount
      hasEnoughCols == size.columnCount >= colCount
  IN (IF ~hasEnoughRows THEN <<RowResize(rowCount)>> ELSE <<>>)
     \o (IF ~hasEnoughCols THEN <<ColumnResize(colCount)>> ELSE <<>>)

\* ensureSheetSize with the row request carrying the column requirement.
EnsureRequestsSwapped(size, requiredRowCount, requiredColumnCount) ==
  (IF size.rowCount < requiredRowCount
     THEN <<RowResize(requiredColumnCount)>> ELSE <<>>)
  \o (IF size.columnCount < requiredColumnCount
        THEN <<ColumnResize(requiredColumnCount)>> ELSE <<>>)

\* ensureSheetSize, after its size query: the requests it collects.
EnsureRequests(size, requiredRowCount, requiredColumnCount) ==
  (IF size.rowCount < requiredRowCount
     THEN <<RowResize(requiredRowCount)>> ELSE <<>>)
  \o (IF size.columnCount < requiredColumnCount
        THEN <<ColumnResize(requiredColumnCount)>> ELSE <<>>)

\* gsSyncFunction builds its batch inline: the clearing request first, then
\* the same two tests as buildBatchUpdates.
InitialBatchUpdates(size, rowCount, colCount) ==
  LET hasEnoughRows == size.rowCount >= rowCount
      hasEnoughCols == size.columnCount >= colCount
  IN <<ClearValues(colCount)>>
     \o (IF ~hasEnoughRows THEN <<RowResize(rowCount)>> ELSE <<>>)
     \o (IF ~hasEnoughCols THEN <<ColumnResize(colCount)>> ELSE <<>>)

\* getSheetSize: the grid of the worksheet with that id; {0, 0} when no
\* worksheet has the id, and {0, 0} as well when the query throws.
GetSheetSize(d, worksheetId, throws) ==
  IF throws THEN NoSize
  ELSE IF worksheetId = ExistingWorksheetId
         THEN [rowCount |-> d.rowCount, columnCount |-> d.columnCount]
         ELSE NoSize

----------------------------------------------------------------------------
\* The backend's effect of the calls the code issues.

\* One request of spreadsheets.batchUpdate applied to the worksheet d.
\* updateCells with fields "userEnteredValue" and no rows clears the values of
\* the range: every row, columns [0, endColumnIndex).  An endColumnIndex of 0
\* is either the empty range or no bound at all (openEnd), as the backend
\* reads it; it reads it the same way every time.  Setting a count below the present one deletes the cells beyond.
ApplyRequest(d, rq, openEnd) ==
  CASE rq.kind = "updateCells" ->
         [d EXCEPT !.cells = [r \in Rows |-> [c \in Cols |->
            IF c <= rq.n \/ (rq.n = 0 /\ openEnd) THEN Empty ELSE d.cells[r][c]]]]
    [] rq.kind = "rowCount" ->
         [d EXCEPT !.rowCount = rq.n,
                   !.cells = [r \in Rows |-> [c \in Cols |->
                      IF r > rq.n THEN Empty ELSE d.cells[r][c]]]]
    [] rq.kind = "columnCount" ->
         [d EXCEPT !.columnCount = rq.n,
                   !.cells = [r \in Rows |-> [c \in Cols |->
                      IF c > rq.n THEN Empty ELSE d.cells[r][c]]]]

\* spreadsheets.batchUpdate: the requests in order, all or nothing.
RECURSIVE ApplyBatch(_, _, _)
ApplyBatch(d, rqs, openEnd) ==
  IF rqs = <<>> THEN d
  ELSE ApplyBatch(ApplyRequest(d, Head(rqs), openEnd), Tail(rqs), openEnd)

\* The same on a size alone (the planner's view of the worksheet).
RECURSIVE ApplyResizes(_, _)
ApplyResizes(size, rqs) ==
  IF rqs = <<>> THEN size
  ELSE LET rq == Head(rqs)
           next == CASE rq.kind = "rowCount" -> [size EXCEPT !.rowCount = rq.n]
                     [] rq.kind = "columnCount" -> [size EXCEPT !.columnCount = rq.n]
                     [] OTHER -> size
       IN ApplyResizes(next, Tail(rqs))

\* spreadsheets.values.append (what insertDataInSheet calls) in the place of
\* the update: the rows go below the last row of the range that has a value.
WriteValuesAppend(d, first, data) ==
  LET start == Max({0} \cup {r \in Rows : \E c \in Cols :
                                 c >= first /\ d.cells[r][c] # Empty})
  IN [rowCount |-> Max({d.rowCount} \cup {r \in Rows : r <= start + Len(data)}),
      columnCount |-> Max({d.columnCount} \cup
                          {first + Len(data[r]) - 1 : r \in 1..Len(data)}),
      cells |-> [r \in Rows |-> [c \in Cols |->
         IF r > start /\ r - start <= Len(data) /\ c >= first
            /\ c - first + 1 <= Len(data[r - start])
           THEN data[r - start][c - first + 1] ELSE d.cells[r][c]]]]

\* spreadsheets.values.update over `Name!<first>:<last>` with RAW values: cell
\* j of row r of the data goes to row r, column first + j - 1; cells the data
\* does not cover keep their value.  A backend that accepts data beyond the
\* grid extends the grid to hold it.
WriteValues(d, first, data) ==
  [rowCount |-> Max({d.rowCount, Len(data)}),
   columnCount |-> Max({d.columnCount} \cup
                       {first + Len(data[r]) - 1 : r \in 1..Len(data)}),
   cells |-> [r \in Rows |-> [c \in Cols |->
      IF r <= Len(data) /\ c >= first /\ c - first + 1 <= Len(data[r])
        THEN data[r][c - first + 1] ELSE d.cells[r][c]]]]

----------------------------------------------------------------------------
\* The handler gsSyncFunction, one action per awaited collaborator call.

NoBody == [originSpreadsheetId |-> Undefined,
           destinationSpreadsheetId |-> Undefined,
           destinationWorksheetId |-> ExistingWorksheetId,
           originWorksheetFirstColumn |-> 1,
           originWorksheetLastColumn |-> 1]
NoResponse == [status |-> 0, text |-> ""]
BadRequest == [status |-> 400,
               text |-> "Bad Request: Missing originSpreadsheetId or destinationSpreadsheetId"]
Completed == [status |-> 200, text |-> "Completed"]
NoUpdateNeeded == [status |-> 200,
                   text |-> "No update needed; data is already synchronized."]
InternalError == [status |-> 500, text |-> "Internal Server Error"]

\* An A1 range `Name!<firstColumn><firstRow>:<lastColumn><lastRow>`; a row of 0
\* stands for no row number in the address.
Range(firstColumn, lastColumn, firstRow, lastRow) ==
  [firstColumn |-> firstColumn, lastColumn |-> lastColumn,
   firstRow |-> firstRow, lastRow |-> lastRow]
NoRange == Range(0, 0, 0, 0)

\* A collaborator call of a run: outcome "ok", "error" (the call threw) or
\* "non200" (it returned a status other than 200).
Call(op, outcome, range, values) ==
  [op |-> op, outcome |-> outcome, range |-> range, values |-> values]

\* The positions, in the calls of run i, of the calls of the kinds `ops`.
CallsOf(i, ops) == {k \in 1..Len(calls[i]) : calls[i][k].op \in ops}

\* const aiNotation = `${destinationWorksheetName}!${firstColumn}:${lastColumn}`
AiNotation(b) ==
  Range(b.originWorksheetFirstColumn, b.originWorksheetLastColumn, 0, 0)

TypeOK ==
  /\ origin \in [Invocations -> AllCells]
  /\ dest.rowCount \in 0..MaxRows /\ dest.columnCount \in 0..LastCol
  /\ dest.cells \in AllCells
  /\ pc \in [Invocations -> {"idle", "read", "size", "batch", "write", "done"}]
  /\ \A i \in Invocations : response[i].status \in {0, 200, 400, 500}

\* Cells outside the grid do not exist.
InGrid(d) ==
  \A r \in Rows, c \in Cols :
     (r > d.rowCount \/ c > d.columnCount) => d.cells[r][c] = Empty

\* No snapshot of the destination (no request at hand).
NoWorksheet == [rowCount |-> 0, columnCount |-> 0, cells |-> EmptyCells]

Worksheets ==
  {d \in [rowCount : Rows, columnCount : Cols, cells : AllCells] : InGrid(d)}

InitSync ==
  /\ origin \in {o \in [Invocations -> AllCells] :
                   \A i \in Invocations \ Sequential : o[i] = EmptyCells}
  /\ dest \in Worksheets
  /\ zeroIsOpen \in BOOLEAN
  /\ pc = [i \in Invocations |-> "idle"]
  /\ body = [i \in Invocations |-> NoBody]
  /\ dataFromGs = [i \in Invocations |-> <<>>]
  /\ sheetSize = [i \in Invocations |-> NoSize]
  /\ batchUpdates = [i \in Invocations |-> <<>>]
  /\ response = [i \in Invocations |-> NoResponse]
  /\ calls = [i \in Invocations |-> <<>>]
  /\ before = [i \in Invocations |-> NoWorksheet]

PlanOff ==
  /\ current = NoSize
  /\ required = [rows |-> 0, cols |-> 0]
  /\ requests = <<>>
  /\ stage = [at |-> "off", planner |-> "none", observed |-> NoSize]

\* A row bound of a SheetInfo: a number, or the field left undefined or null.
RowNumber(n) == [kind |-> "number", n |-> n]
RowAbsent(kind) == [kind |-> kind, n |-> 0]

NoSheetInfo == [name |-> "", firstColumn |-> "", lastColumn |-> "",
                firstRow |-> RowAbsent("undefined"),
                lastRow |-> RowAbsent("undefined")]

UtilOff ==
  /\ sheetInfo = NoSheetInfo
  /\ notation = Undefined
  /\ datasets = <<>>
  /\ hashes = <<>>

Init == InitSync /\ PlanOff /\ UtilOff

\* Lines 19-56: the request arrives, the identifiers are checked, and the
\* origin read is issued.
ReceiveRequest(i) ==
  /\ pc[i] = "idle"
  /\ \E oid \in IdValues, did \in IdValues, ws \in WorksheetIds,
        f \in Cols, l \in Cols :
       /\ f <= l
       /\ LET b == [originSpreadsheetId |-> oid,
                    destinationSpreadsheetId |-> did,
                    destinationWorksheetId |-> ws,
                    originWorksheetFirstColumn |-> f,
                    originWorksheetLastColumn |-> l]
          IN /\ body' = [body EXCEPT ![i] = b]
             /\ IF MissingIds(b)
                  THEN /\ response' = [response EXCEPT ![i] = BadRequest]
                       /\ pc' = [pc EXCEPT ![i] = "done"]
                  ELSE /\ response' = [response EXCEPT ![i] = NoResponse]
                       /\ pc' = [pc EXCEPT ![i] = "read"]
  /\ before' = [before EXCEPT ![i] = dest]
  /\ UNCHANGED <<offVars, zeroIsOpen>>
  /\ UNCHANGED <<origin, dest, dataFromGs, sheetSize, batchUpdates, calls>>

\* The response is sent and the handler has returned: nothing of the request
\* is kept for the next one.
Return(i) ==
  /\ pc[i] = "done"
  /\ pc' = [pc EXCEPT ![i] = "idle"]
  /\ body' = [body EXCEPT ![i] = NoBody]
  /\ dataFromGs' = [dataFromGs EXCEPT ![i] = <<>>]
  /\ sheetSize' = [sheetSize EXCEPT ![i] = NoSize]
  /\ batchUpdates' = [batchUpdates EXCEPT ![i] = <<>>]
  /\ response' = [response EXCEPT ![i] = NoResponse]
  /\ calls' = [calls EXCEPT ![i] = <<>>]
  /\ before' = [before EXCEPT ![i] = NoWorksheet]
  /\ UNCHANGED <<offVars, zeroIsOpen>>
  /\ UNCHANGED <<origin, dest>>

ReadRange(b) ==
  Range(b.originWorksheetFirstColumn, b.originWorksheetLastColumn, 0, 0)

\* readDataFromSpreadsheet returns the values (status 200).
ReadOk(i) ==
  /\ pc[i] = "read"
  /\ dataFromGs' = [dataFromGs EXCEPT ![i] =
        ValuesGet(origin[i], body[i].originWorksheetFirstColumn,
                  body[i].originWorksheetLastColumn)]
  /\ calls' = [calls EXCEPT ![i] =
        Append(@, Call("read", "ok", ReadRange(body[i]), <<>>))]
  /\ pc' = [pc EXCEPT ![i] = "size"]
  /\ UNCHANGED <<offVars, zeroIsOpen>>
  /\ UNCHANGED <<origin, dest, body, sheetSize, batchUpdates, response, before>>

\* readDataFromSpreadsheet gets a status other than 200: logs, returns [].
ReadNon200(i) ==
  /\ pc[i] = "read"
  /\ dataFromGs' = [dataFromGs EXCEPT ![i] = <<>>]
  /\ calls' = [calls EXCEPT ![i] =
        Append(@, Call("read", "non200", ReadRange(body[i]), <<>>))]
  /\ pc' = [pc EXCEPT ![i] = "size"]
  /\ UNCHANGED <<offVars, zeroIsOpen>>
  /\ UNCHANGED <<origin, dest, body, sheetSize, batchUpdates, response, before>>

\* readDataFromSpreadsheet rethrows; the handler's catch answers 500.
ReadThrows(i) ==
  /\ pc[i] = "read"
  /\ calls' = [calls EXCEPT ![i] =
        Append(@, Call("read", "error", ReadRange(body[i]), <<>>))]
  /\ response' = [response EXCEPT ![i] = InternalError]
  /\ pc' = [pc EXCEPT ![i] = "done"]
  /\ UNCHANGED <<offVars, zeroIsOpen>>
  /\ UNCHANGED <<origin, dest, body, dataFromGs, sheetSize, batchUpdates, before>>

\* Lines 71-147: getSheetSize answers (or throws and is caught inside), the
\* batch is built, spreadsheets.batchUpdate is issued.
SizeQuery(i, throws) ==
  /\ LET size == GetSheetSize(dest, body[i].destinationWorksheetId, throws)
     IN /\ sheetSize' = [sheetSize EXCEPT ![i] = size]
        /\ batchUpdates' = [batchUpdates EXCEPT ![i] =
              InitialBatchUpdates(size, RowCount(dataFromGs[i]),
                                  ColCount(dataFromGs[i]))]
  /\ calls' = [calls EXCEPT ![i] =
        Append(@, Call("size", IF throws THEN "error" ELSE "ok", NoRange, <<>>))]
  /\ pc' = [pc EXCEPT ![i] = "batch"]
  /\ UNCHANGED <<offVars, zeroIsOpen>>
  /\ UNCHANGED <<origin, dest, body, dataFromGs, response, before>>

SizeAnswers(i) ==
  /\ pc[i] = "size"
  /\ SizeQuery(i, FALSE)

SizeThrows(i) ==
  /\ pc[i] = "size"
  /\ SizeQuery(i, TRUE)

\* spreadsheets.batchUpdate succeeds (the worksheet id must exist); the write
\* is issued next.
BatchOk(i) ==
  /\ pc[i] = "batch"
  /\ body[i].destinationWorksheetId = ExistingWorksheetId
  /\ dest' = ApplyBatch(dest, batchUpdates[i], zeroIsOpen)
  /\ calls' = [calls EXCEPT ![i] = Append(@, Call("batch", "ok", NoRange, <<>>))]
  /\ pc' = [pc EXCEPT ![i] = "write"]
  /\ UNCHANGED <<offVars, zeroIsOpen>>
  /\ UNCHANGED <<origin, body, dataFromGs, sheetSize, batchUpdates, response, before>>

\* spreadsheets.batchUpdate throws: nothing is applied, the catch answers 500.
BatchThrows(i) ==
  /\ pc[i] = "batch"
  /\ calls' = [calls EXCEPT ![i] = Append(@, Call("batch", "error", NoRange, <<>>))]
  /\ response' = [response EXCEPT ![i] = InternalError]
  /\ pc' = [pc EXCEPT ![i] = "done"]
  /\ UNCHANGED <<offVars, zeroIsOpen>>
  /\ UNCHANGED <<origin, dest, body, dataFromGs, sheetSize, batchUpdates, before>>

\* The write with a check before it: it is not made, and the run answers 500,
\* when the range cleared by the batch update holds values again.
WriteOkChecked(i) ==
  /\ pc[i] = "write"
  /\ LET clean == \A r \in Rows, c \in Cols :
                     c <= ColCount(dataFromGs[i]) => dest.cells[r][c] = Empty
     IN /\ dest' = IF clean
                     THEN WriteValues(dest, body[i].originWorksheetFirstColumn,
                                      dataFromGs[i])
                     ELSE dest
        /\ response' = [response EXCEPT ![i] =
                          IF clean THEN Completed ELSE InternalError]
  /\ calls' = [calls EXCEPT ![i] =
        Append(@, Call("write", "ok", AiNotation(body[i]), dataFromGs[i]))]
  /\ pc' = [pc EXCEPT ![i] = "done"]
  /\ UNCHANGED <<offVars, zeroIsOpen>>
  /\ UNCHANGED <<origin, body, dataFromGs, sheetSize, batchUpdates, before>>

\* updateDataInSheet writes the values; the handler answers "Completed".
WriteOk(i) ==
  /\ pc[i] = "write"
  /\ dest' = WriteValues(dest, body[i].originWorksheetFirstColumn, dataFromGs[i])
  /\ calls' = [calls EXCEPT ![i] =
        Append(@, Call("write", "ok", AiNotation(body[i]), dataFromGs[i]))]
  /\ response' = [response EXCEPT ![i] = Completed]
  /\ pc' = [pc EXCEPT ![i] = "done"]
  /\ UNCHANGED <<offVars, zeroIsOpen>>
  /\ UNCHANGED <<origin, body, dataFromGs, sheetSize, batchUpdates, before>>

\* The failed write with the handler returning on the null result, no
\* response sent.
WriteFailsNoResponse(i) ==
  /\ pc[i] = "write"
  /\ calls' = [calls EXCEPT ![i] =
        Append(@, Call("write", "error", AiNotation(body[i]), dataFromGs[i]))]
  /\ pc' = [pc EXCEPT ![i] = "done"]
  /\ UNCHANGED <<offVars, zeroIsOpen>>
  /\ UNCHANGED <<origin, dest, body, dataFromGs, sheetSize, batchUpdates,
                 response, before>>

\* updateDataInSheet's call throws (a status other than 200 ends the same
\* way): it logs and returns null, which the handler does not look at; it
\* answers "Completed".
WriteFails(i) ==
  /\ pc[i] = "write"
  /\ calls' = [calls EXCEPT ![i] =
        Append(@, Call("write", "error", AiNotation(body[i]), dataFromGs[i]))]
  /\ response' = [response EXCEPT ![i] = Completed]
  /\ pc' = [pc EXCEPT ![i] = "done"]
  /\ UNCHANGED <<offVars, zeroIsOpen>>
  /\ UNCHANGED <<origin, dest, body, dataFromGs, sheetSize, batchUpdates, before>>

Next ==
  \/ \E i \in Sequential : ReceiveRequest(i)
  \/ \E i \in Sequential : ReadOk(i)
  \/ \E i \in Sequential : ReadNon200(i)
  \/ \E i \in Sequential : ReadThrows(i)
  \/ \E i \in Sequential : SizeAnswers(i)
  \/ \E i \in Sequential : SizeThrows(i)
  \/ \E i \in Sequential : BatchOk(i)
  \/ \E i \in Sequential : BatchThrows(i)
  \/ \E i \in Sequential : WriteOk(i)
  \/ \E i \in Sequential : WriteFails(i)
  \/ \E i \in Sequential : Return(i)

Spec == Init /\ [][Next]_vars

\* Every awaited collaborator call settles: it returns or it fails.
CallSettles ==
  \E i \in Sequential :
     \/ ReadOk(i) \/ ReadNon200(i) \/ ReadThrows(i)
     \/ SizeAnswers(i) \/ SizeThrows(i)
     \/ BatchOk(i) \/ BatchThrows(i)
     \/ WriteOk(i) \/ WriteFails(i)

\* The handler under collaborators whose calls all settle.  No branch of the
\* handler looks at a value of the destination, only at its grid size: the
\* destination starts without values, in every grid size.
InitLive ==
  /\ Init
  /\ dest.cells = EmptyCells

SpecLive == InitLive /\ [][Next]_vars /\ WF_vars(CallSettles)

\* The caller sends the request of the run that has just ended once more (a
\* retry after a 500, or a repeat after a 200): lines 19-56 run again on the
\* same body.  Of the first run `calls` keeps one "retry" entry: whether a
\* call of it failed, what it answered and the destination it left; the calls
\* of the second run follow it.  `before` stays the destination of the time
\* the first request arrived.
Retry(i) ==
  /\ pc[i] = "done"
  /\ response[i] \in {Completed, InternalError}
  /\ CallsOf(i, {"retry"}) = {}
  /\ calls' = [calls EXCEPT ![i] =
        <<[op |-> "retry",
           outcome |-> IF \A k \in 1..Len(@) : @[k].outcome = "ok"
                         THEN "ok" ELSE "failed",
           range |-> NoRange, values |-> <<>>,
           answered |-> response[i], left |-> dest]>>]
  /\ response' = [response EXCEPT ![i] = NoResponse]
  /\ pc' = [pc EXCEPT ![i] = "read"]
  /\ dataFromGs' = [dataFromGs EXCEPT ![i] = <<>>]
  /\ sheetSize' = [sheetSize EXCEPT ![i] = NoSize]
  /\ batchUpdates' = [batchUpdates EXCEPT ![i] = <<>>]
  /\ UNCHANGED <<offVars, zeroIsOpen>>
  /\ UNCHANGED <<origin, dest, body, before>>

NextRetry ==
  \/ Next
  \/ \E i \in Sequential : Retry(i)

SpecRetry == Init /\ [][NextRetry]_vars

\* Two invocations at once on one destination worksheet: both requests, for
\* the whole column range, have passed the identifier check, each has its own
\* origin, the destination holds no value yet, and every call succeeds.
WholeRange ==
  [originSpreadsheetId |-> "sheet",
   destinationSpreadsheetId |-> "sheet",
   destinationWorksheetId |-> ExistingWorksheetId,
   originWorksheetFirstColumn |-> 1,
   originWorksheetLastColumn |-> LastCol]

InitRace ==
  /\ origin \in [Invocations -> AllCells]
  /\ dest \in {d \in Worksheets : d.cells = EmptyCells}
  /\ zeroIsOpen = FALSE
  /\ pc = [i \in Invocations |-> "read"]
  /\ body = [i \in Invocations |-> WholeRange]
  /\ dataFromGs = [i \in Invocations |-> <<>>]
  /\ sheetSize = [i \in Invocations |-> NoSize]
  /\ batchUpdates = [i \in Invocations |-> <<>>]
  /\ response = [i \in Invocations |-> NoResponse]
  /\ calls = [i \in Invocations |-> <<>>]
  /\ before = [i \in Invocations |-> dest]
  /\ PlanOff
  /\ UtilOff

NextRace ==
  \/ \E i \in Invocations : ReadOk(i)
  \/ \E i \in Invocations : SizeAnswers(i)
  \/ \E i \in Invocations : BatchOk(i)
  \/ \E i \in Invocations : WriteOk(i)

SpecRace == InitRace /\ [][NextRace]_vars

----------------------------------------------------------------------------
\* The sizing planner on its own: a size and a requirement are drawn, one of
\* the two planners runs, its requests are applied, and it runs again on the
\* size that results.

Sizes == [rowCount : 0..MaxRows, columnCount : 0..LastCol]
Requirements == [rows : 0..MaxRows, cols : 0..LastCol]

SyncOff ==
  /\ origin = [i \in Invocations |-> EmptyCells]
  /\ dest = [rowCount |-> 1, columnCount |-> 1, cells |-> EmptyCells]
  /\ zeroIsOpen = FALSE
  /\ pc = [i \in Invocations |-> "idle"]
  /\ body = [i \in Invocations |-> NoBody]
  /\ dataFromGs = [i \in Invocations |-> <<>>]
  /\ sheetSize = [i \in Invocations |-> NoSize]
  /\ batchUpdates = [i \in Invocations |-> <<>>]
  /\ response = [i \in Invocations |-> NoResponse]
  /\ calls = [i \in Invocations |-> <<>>]
  /\ before = [i \in Invocations |-> NoWorksheet]

InitPlan ==
  /\ SyncOff
  /\ UtilOff
  /\ current \in Sizes
  /\ required \in Requirements
  /\ requests = <<>>
  /\ stage = [at |-> "input", planner |-> "none", observed |-> current]

\* The planner `planner` on the size `size`: buildBatchUpdates,
\* ensureSheetSize, or the handler's inline batch.
Plan(planner, size) ==
  CASE planner = "build" ->
         BuildBatchUpdates(size, required.rows, required.cols)
    [] planner = "ensure" ->
         EnsureRequests(size, required.rows, required.cols)
    [] planner = "inline" ->
         InitialBatchUpdates(size, required.rows, required.cols)

\* buildBatchUpdates returns its requests.
BuildBatchUpdatesStep ==
  /\ stage.at = "input"
  /\ requests' = Plan("build", current)
  /\ stage' = [at |-> "planned", planner |-> "build", observed |-> current]
  /\ UNCHANGED <<current, required>>
  /\ UNCHANGED <<syncVars, utilVars>>

\* applyBatchUpdates: returns at once for no requests, else one batchUpdate.
ApplyBatchUpdatesStep ==
  /\ stage.at = "planned"
  /\ current' = IF Len(requests) = 0 THEN current
                ELSE ApplyResizes(current, requests)
  /\ stage' = [stage EXCEPT !.at = "applied"]
  /\ UNCHANGED <<required, requests>>
  /\ UNCHANGED <<syncVars, utilVars>>

\* ensureSheetSize: collects its requests and applies them when there are any.
EnsureSheetSizeStep ==
  /\ stage.at = "input"
  /\ requests' = Plan("ensure", current)
  /\ current' = IF Len(requests') > 0 THEN ApplyResizes(current, requests')
                ELSE current
  /\ stage' = [at |-> "applied", planner |-> "ensure", observed |-> current]
  /\ UNCHANGED required
  /\ UNCHANGED <<syncVars, utilVars>>

\* gsSyncFunction's inline batch (lines 76-152): built and applied in one go.
InlineBatchStep ==
  /\ stage.at = "input"
  /\ requests' = Plan("inline", current)
  /\ current' = ApplyResizes(current, requests')
  /\ stage' = [at |-> "applied", planner |-> "inline", observed |-> current]
  /\ UNCHANGED required
  /\ UNCHANGED <<syncVars, utilVars>>

\* The same planner once more, on the size its first requests left.
PlanAgain ==
  /\ stage.at = "applied"
  /\ requests' = Plan(stage.planner, current)
  /\ stage' = [stage EXCEPT !.at = "replanned"]
  /\ UNCHANGED <<current, required>>
  /\ UNCHANGED <<syncVars, utilVars>>

NextPlan ==
  \/ BuildBatchUpdatesStep
  \/ ApplyBatchUpdatesStep
  \/ EnsureSheetSizeStep
  \/ InlineBatchStep
  \/ PlanAgain

SpecPlan == InitPlan /\ [][NextPlan]_vars

----------------------------------------------------------------------------
\* SheetInfoImpl.getReadA1NotationRange on its own: a descriptor is drawn and
\* resolved to its address.

SheetNames == {"Sheet1", "Data"}
ColumnLetters == {"A", "B"}
RowBounds == {RowAbsent("undefined"), RowAbsent("null")}
             \cup {RowNumber(n) : n \in 0..MaxRows}
SheetInfos == [name : SheetNames, firstColumn : ColumnLetters,
               lastColumn : ColumnLetters, firstRow : RowBounds,
               lastRow : RowBounds]

\* `${v ?? ""}`: undefined and null give "", a number gives its digits.
NullishToText(v) ==
  IF v.kind \in {"undefined", "null"} THEN "" ELSE ToString(v.n)

\* return `${name}!${firstColumn}${firstRow}:${lastColumn}${lastRow}`
GetReadA1NotationRange(info) ==
  info.name \o "!" \o info.firstColumn \o NullishToText(info.firstRow)
  \o ":" \o info.lastColumn \o NullishToText(info.lastRow)

InitRange ==
  /\ SyncOff
  /\ PlanOff
  /\ sheetInfo \in SheetInfos
  /\ notation = Undefined
  /\ datasets = <<>>
  /\ hashes = <<>>

GetReadA1NotationRangeStep ==
  /\ notation = Undefined
  /\ notation' = GetReadA1NotationRange(sheetInfo)
  /\ UNCHANGED <<sheetInfo, datasets, hashes>>
  /\ UNCHANGED <<syncVars, planVars>>

NextRange == GetReadA1NotationRangeStep

SpecRange == InitRange /\ [][NextRange]_vars

----------------------------------------------------------------------------
\* generateHash on its own: two datasets are drawn and hashed one after the
\* other.  A cell of a dataset is a number or a string; a string is the
\* sequence of its characters.

NumberCell(n) == [type |-> "number", n |-> n, s |-> <<>>]
StringCell(chars) == [type |-> "string", n |-> 0, s |-> chars]

HashCells == {NumberCell(1), StringCell(<<"1">>)}
HashRows == UNION {[1..n -> HashCells] : n \in 0..LastCol}
HashDatasets == UNION {[1..m -> HashRows] : m \in 0..MaxRows}

\* JSON's string escapes, for the characters that need one here.
RECURSIVE JsonEscape(_)
JsonEscape(chars) ==
  IF chars = <<>> THEN ""
  ELSE (CASE Head(chars) = "\"" -> "\\\""
          [] Head(chars) = "\\" -> "\\\\"
          [] OTHER -> Head(chars))
       \o JsonEscape(Tail(chars))

\* A string cell written without its quotes.
JsonCellBare(cell) ==
  IF cell.type = "number" THEN ToString(cell.n) ELSE JsonEscape(cell.s)

\* JSON.stringify of a cell: a number by its digits, a string quoted.
JsonCell(cell) ==
  IF cell.type = "number" THEN ToString(cell.n)
  ELSE "\"" \o JsonEscape(cell.s) \o "\""

RECURSIVE JoinWithCommas(_)
JoinWithCommas(texts) ==
  IF texts = <<>> THEN ""
  ELSE IF Len(texts) = 1 THEN Head(texts)
  ELSE Head(texts) \o "," \o JoinWithCommas(Tail(texts))

\* JSON.stringify of an array.
JsonArray(texts) == "[" \o JoinWithCommas(texts) \o "]"

\* const jsonString = JSON.stringify(data)
JsonStringify(data) ==
  JsonArray([r \in 1..Len(data) |->
    JsonArray([j \in 1..Len(data[r]) |-> JsonCell(data[r][j])])])

\* The SHA-256 digest of the text's bytes, in hex: the digest stands for the
\* text it was taken of (two digests are equal exactly when the texts are).
Sha256Hex(text) == [digest |-> "SHA-256", of |-> text]

GenerateHash(data) == Sha256Hex(JsonStringify(data))

InitHash ==
  /\ SyncOff
  /\ PlanOff
  /\ sheetInfo = NoSheetInfo
  /\ notation = Undefined
  /\ datasets \in HashDatasets \X HashDatasets
  /\ hashes = <<>>

GenerateHashStep ==
  /\ Len(hashes) < Len(datasets)
  /\ hashes' = Append(hashes, GenerateHash(datasets[Len(hashes) + 1]))
  /\ UNCHANGED <<sheetInfo, notation, datasets>>
  /\ UNCHANGED <<syncVars, planVars>>

NextHash == GenerateHashStep

SpecHash == InitHash /\ [][NextHash]_vars

----------------------------------------------------------------------------
\* What the claims speak of.

\* The destination range of the request of invocation i, read as the API
\* reads it, when the request arrived and now.
DestinationBefore(i) ==
  ValuesGet(before[i].cells, body[i].originWorksheetFirstColumn,
            body[i].originWorksheetLastColumn)
DestinationNow(i) ==
  ValuesGet(dest.cells, body[i].originWorksheetFirstColumn,
            body[i].originWorksheetLastColumn)

\* The origin read of the run has returned the origin dataset.
OriginRead(i) == Len(calls[i]) >= 1 /\ calls[i][1].outcome = "ok"

\* No collaborator call of the run has failed.
NoFailure(i) == \A k \in 1..Len(calls[i]) : calls[i][k].outcome = "ok"

\* The widest row of a dataset (0 for no rows).
Widest(data) == Max({0} \cup {Len(data[r]) : r \in 1..Len(data)})

\* The worksheet a run of the request b leaves when started on the worksheet
\* d with the origin data `data` and every call succeeding.
SingleRun(d, b, data, openEnd) ==
  LET size == GetSheetSize(d, b.destinationWorksheetId, FALSE)
      batch == InitialBatchUpdates(size, RowCount(data), ColCount(data))
  IN WriteValues(ApplyBatch(d, batch, openEnd), b.originWorksheetFirstColumn, data)

\* Row r of the destination range holds no value.
RowIsEmpty(i, r) ==
  \A c \in body[i].originWorksheetFirstColumn..body[i].originWorksheetLastColumn :
     dest.cells[r][c] = Empty

\* C1: a run without collaborator failure that ends in Completed (or
\* NoUpdateNeeded) leaves the destination range holding exactly the origin
\* dataset.  Stated for origins whose first row has a value, where the
\* backend's reading of an empty clearing range plays no part.
C1_DestinationHoldsOrigin ==
  \A i \in Invocations :
     ( /\ pc[i] = "done"
       /\ response[i] \in {Completed, NoUpdateNeeded}
       /\ OriginRead(i) /\ NoFailure(i)
       /\ ColCount(dataFromGs[i]) > 0 )
     => DestinationNow(i) = dataFromGs[i]

\* C2: a run whose origin dataset equals the destination dataset issues no
\* write and no resize/batch-update call, and ends in NoUpdateNeeded.
C2_EqualityShortCircuit ==
  \A i \in Invocations :
     (OriginRead(i) /\ dataFromGs[i] = DestinationBefore(i))
     => /\ CallsOf(i, {"write", "batch"}) = {}
        /\ pc[i] = "done" => response[i] = NoUpdateNeeded

\* C3: a request whose origin or destination spreadsheet identifier is absent
\* or empty is answered 400 at once, and no collaborator call is made and the
\* destination is not touched at any point of the run.
C3_MissingIdentifierRejected ==
  \A i \in Invocations :
     ( /\ pc[i] # "idle"
       /\ \/ body[i].originSpreadsheetId \in {Undefined, ""}
          \/ body[i].destinationSpreadsheetId \in {Undefined, ""} )
     => /\ pc[i] = "done"
        /\ response[i] = BadRequest
        /\ calls[i] = <<>>
        /\ dest = before[i]

C3_Witness ==
  \E i \in Invocations :
     /\ pc[i] = "done"
     /\ body[i].originSpreadsheetId = "sheet"
     /\ body[i].destinationSpreadsheetId = Undefined
     /\ response[i] = BadRequest

\* C4: once a collaborator call of a run has failed, the run issues no later
\* call, it ends in InternalError, and it never answers Completed.
C4_FailureAborts ==
  \A i \in Invocations : \A k \in 1..Len(calls[i]) :
     calls[i][k].outcome = "error"
     => /\ k = Len(calls[i])
        /\ response[i] # Completed
        /\ pc[i] = "done" => response[i] = InternalError

\* C5: origin and non-empty destination of the same length that differ in
\* the rows S: the run issues exactly one write per row of S, addressed to
\* that single row and carrying that row of the origin, and changes no row
\* outside S.
C5_SparseRowWrites ==
  \A i \in Invocations :
     LET O == dataFromGs[i]
         D == DestinationBefore(i)
         S == {r \in 1..Len(O) : O[r] # D[r]}
         writes == CallsOf(i, {"write"})
     IN ( /\ pc[i] = "done" /\ OriginRead(i) /\ NoFailure(i)
          /\ Len(D) > 0 /\ Len(O) = Len(D) /\ S # {} )
        => /\ Cardinality(writes) = Cardinality(S)
           /\ \A r \in S : \E k \in writes :
                 /\ calls[i][k].range.firstRow = r
                 /\ calls[i][k].range.lastRow = r
                 /\ calls[i][k].values = <<O[r]>>
           /\ \A r \in Rows \ S : dest.cells[r] = before[i].cells[r]

\* C6: non-empty origin, destination without data: the resize is planned
\* against the origin's extent (its number of rows, its widest row), and the
\* run issues exactly one write, carrying the whole origin dataset.
C6_FullRewriteOnEmptyDestination ==
  \A i \in Invocations :
     LET O == dataFromGs[i]
         rq == batchUpdates[i]
         rowOps == {k \in 1..Len(rq) : rq[k].kind = "rowCount"}
         colOps == {k \in 1..Len(rq) : rq[k].kind = "columnCount"}
         writes == CallsOf(i, {"write"})
     IN ( /\ pc[i] \in {"batch", "write", "done"}
          /\ OriginRead(i) /\ NoFailure(i)
          /\ body[i].destinationWorksheetId = ExistingWorksheetId
          /\ Len(O) > 0 /\ Len(DestinationBefore(i)) = 0 )
        => /\ rowOps # {} <=> sheetSize[i].rowCount < Len(O)
           /\ colOps # {} <=> sheetSize[i].columnCount < Widest(O)
           /\ \A k \in rowOps : rq[k].n = Len(O)
           /\ \A k \in colOps : rq[k].n = Widest(O)
           /\ pc[i] = "done" =>
                /\ Cardinality(writes) = 1
                /\ \A k \in writes : calls[i][k].values = O

\* C7: destination with more rows than the origin, the common rows equal:
\* every trailing destination row is rewritten against the empty origin row
\* (it holds no value of the range after the run), and the run does not end
\* in NoUpdateNeeded.  Stated for origins whose first row has a value.
C7_TrailingRowsRewritten ==
  \A i \in Invocations :
     LET O == dataFromGs[i]
         D == DestinationBefore(i)
     IN ( /\ pc[i] = "done" /\ OriginRead(i) /\ NoFailure(i)
          /\ ColCount(O) > 0
          /\ Len(D) > Len(O)
          /\ \A r \in 1..Len(O) : D[r] = O[r] )
        => /\ response[i] # NoUpdateNeeded
           /\ \A r \in (Len(O) + 1)..Len(D) : RowIsEmpty(i, r)

\* C8: the destination worksheet's rowCount and columnCount never decrease,
\* and every resize request a run issues sets a count above the worksheet's
\* present one.
C8_NeverShrinks ==
  [][ /\ dest'.rowCount >= dest.rowCount
      /\ dest'.columnCount >= dest.columnCount
      /\ \A i \in Invocations :
           (pc[i] = "size" /\ pc'[i] = "batch") =>
              \A k \in 1..Len(batchUpdates'[i]) :
                 /\ batchUpdates'[i][k].kind = "rowCount"
                      => batchUpdates'[i][k].n > dest.rowCount
                 /\ batchUpdates'[i][k].kind = "columnCount"
                      => batchUpdates'[i][k].n > dest.columnCount ]_vars

\* C9: the planner emits a row resize iff rowCount < required rows, a column
\* resize iff columnCount < required columns, no other resize, and each sets
\* the count to exactly the required value.
C9_PlannerRule ==
  stage.at \in {"planned", "applied"} =>
     LET resizes == {k \in 1..Len(requests) : requests[k].kind # "updateCells"}
         rowOps == {k \in resizes : requests[k].kind = "rowCount"}
         colOps == {k \in resizes : requests[k].kind = "columnCount"}
     IN /\ rowOps # {} <=> stage.observed.rowCount < required.rows
        /\ colOps # {} <=> stage.observed.columnCount < required.cols
        /\ resizes = rowOps \cup colOps
        /\ Cardinality(rowOps) <= 1 /\ Cardinality(colOps) <= 1
        /\ \A k \in rowOps : requests[k].n = required.rows
        /\ \A k \in colOps : requests[k].n = required.cols

C9_Witness ==
  /\ stage.at = "planned"
  /\ stage.observed.rowCount < required.rows
  /\ stage.observed.columnCount = required.cols
  /\ requests = <<[kind |-> "rowCount", n |-> required.rows]>>

\* C10: planning again, with the same requirement, on the size the first
\* plan's requests leave yields no resize.
C10_ResizeIdempotent ==
  stage.at = "replanned" =>
     \A k \in 1..Len(requests) : requests[k].kind = "updateCells"

C10_Witness ==
  /\ stage.at = "replanned"
  /\ stage.planner = "ensure"
  /\ stage.observed.rowCount < required.rows
  /\ stage.observed.columnCount < required.cols
  /\ current = [rowCount |-> required.rows, columnCount |-> required.cols]
  /\ requests = <<>>

\* C11: a run has sent a response exactly when it has stopped, the response
\* is one of Completed, NoUpdateNeeded, BadRequest, InternalError; once sent,
\* the response is not replaced and no further collaborator call is made;
\* and, every call settling, a run that has started reaches that point.
C11_OneTerminalResponse ==
  /\ [](\A i \in Invocations :
         /\ pc[i] = "done" <=> response[i] # NoResponse
         /\ pc[i] = "done" =>
              response[i] \in {Completed, NoUpdateNeeded, BadRequest, InternalError})
  /\ [][\A i \in Invocations :
          response[i] # NoResponse =>
             \/ pc'[i] = "idle"
             \/ response'[i] = response[i] /\ calls'[i] = calls[i]]_vars
  /\ \A i \in Sequential :
        (pc[i] \in {"read", "size", "batch", "write"}) ~> (pc[i] = "done")

C11_Witness ==
  \E i \in Invocations :
     /\ pc[i] = "done"
     /\ response[i] = Completed
     /\ Len(calls[i]) = 4
     /\ calls[i][4].op = "write" /\ calls[i][4].outcome = "error"

\* C12: the resolved address is `Name!<firstColumn><firstRow>:<lastColumn>
\* <lastRow>`, a row bound that is absent (undefined, null) or zero rendered
\* as the empty string, any other as its digits.
C12_ResolvedRange ==
  notation # Undefined =>
     LET shown(v) == IF v.kind \in {"undefined", "null"} \/ v.n = 0
                       THEN "" ELSE ToString(v.n)
     IN notation = sheetInfo.name \o "!"
                   \o sheetInfo.firstColumn \o shown(sheetInfo.firstRow)
                   \o ":"
                   \o sheetInfo.lastColumn \o shown(sheetInfo.lastRow)

\* C13: two datasets have the same fingerprint exactly when they have the
\* same rows, of the same lengths, holding the same cell values in the same
\* order; a number and the string of its digits are different values.
C13_FingerprintInjective ==
  Len(hashes) = 2 =>
     (hashes[1] = hashes[2] <=> datasets[1] = datasets[2])

C13_Witness ==
  /\ Len(hashes) = 2
  /\ datasets[1] = <<<<NumberCell(1)>>, <<StringCell(<<"1">>), NumberCell(1)>>>>
  /\ datasets[2] = <<<<StringCell(<<"1">>), NumberCell(1)>>, <<NumberCell(1)>>>>
  /\ hashes[1] # hashes[2]

\* C14: when the data write of a run without collaborator failure is issued,
\* the destination grid has at least as many rows as the data has and
\* reaches at least the last column a cell of the data goes to.
C14_CapacityBeforeWrite ==
  \A i \in Invocations :
     (pc[i] = "write" /\ NoFailure(i) /\ Len(dataFromGs[i]) > 0)
     => /\ dest.rowCount >= Len(dataFromGs[i])
        /\ dest.columnCount >=
             body[i].originWorksheetFirstColumn + Widest(dataFromGs[i]) - 1

\* C15: when the data write of a run is issued, the run's size query and its
\* batch update have both completed successfully, in that order.
C15_ResizeBeforeWrite ==
  \A i \in Invocations :
     (pc[i] = "write" \/ CallsOf(i, {"write"}) # {})
     => \E s \in CallsOf(i, {"size"}), b \in CallsOf(i, {"batch"}) :
           /\ s < b
           /\ calls[i][s].outcome = "ok"
           /\ calls[i][b].outcome = "ok"
           /\ \A w \in CallsOf(i, {"write"}) : b < w

\* C16: between any two collaborator calls of a run whose calls so far have
\* all succeeded, every row of the destination range holds either what it
\* held when the run began or the origin's row.  Stated for origins whose
\* first row has a value.
C16_PartialProgressConsistent ==
  \A i \in Invocations :
     LET O == dataFromGs[i]
         D == DestinationBefore(i)
         N == DestinationNow(i)
         at(data, r) == IF r <= Len(data) THEN data[r] ELSE <<>>
     IN ( /\ pc[i] \in {"size", "batch", "write"}
          /\ OriginRead(i) /\ NoFailure(i)
          /\ ColCount(O) > 0 )
        => \A r \in Rows : at(N, r) \in {at(D, r), at(O, r)}

C18_NoConflictDetected ==
  \A i \in Invocations :
     /\ pc[i] # "done" =>
          ENABLED (ReadOk(i) \/ SizeAnswers(i) \/ BatchOk(i) \/ WriteOk(i))
     /\ pc[i] = "done" =>
          /\ response[i] = Completed
          /\ [k \in 1..Len(calls[i]) |-> calls[i][k].op]
               = <<"read", "size", "batch", "write">>

C18_Witness ==
  /\ \A i \in Invocations : pc[i] = "done" /\ response[i] = Completed
  /\ dataFromGs[1] # dataFromGs[2]
  /\ DestinationNow(1) \notin {dataFromGs[1], dataFromGs[2]}
  /\ \E r \in Rows, q \in Rows :
        /\ r <= Len(dataFromGs[1]) /\ r <= Len(DestinationNow(1))
        /\ q <= Len(dataFromGs[2]) /\ q <= Len(DestinationNow(1))
        /\ DestinationNow(1)[r] = dataFromGs[1][r]
        /\ (r <= Len(dataFromGs[2]) => dataFromGs[2][r] # dataFromGs[1][r])
        /\ DestinationNow(1)[q] = dataFromGs[2][q]
        /\ (q <= Len(dataFromGs[1]) => dataFromGs[1][q] # dataFromGs[2][q])

\* C19: a size query for a worksheet id the spreadsheet does not have answers
\* {0, 0} without failing; a size query that fails gives the caller no
\* size: the run ends there, answering 500, with no batch planned from it.
C19_SizeQueryContract ==
  \A i \in Invocations : \A k \in CallsOf(i, {"size"}) :
     /\ ( /\ calls[i][k].outcome = "ok"
          /\ body[i].destinationWorksheetId # ExistingWorksheetId )
        => sheetSize[i] = NoSize
     /\ calls[i][k].outcome = "error"
        => /\ pc[i] = "done"
           /\ response[i] = InternalError
           /\ batchUpdates[i] = <<>>

\* C20: a step of a run whose calls have all succeeded changes no cell of
\* the destination outside the request's columns first..last, and no step
\* changes a cell of the origin.  Stated for origins whose first row has a
\* value.
C20_Frame ==
  [][ /\ origin' = origin
      /\ \A i \in Invocations :
           ( /\ pc[i] \in {"batch", "write"}
             /\ pc'[i] # pc[i]
             /\ NoFailure(i)
             /\ ColCount(dataFromGs[i]) > 0 )
           => \A r \in Rows, c \in Cols :
                 (c < body[i].originWorksheetFirstColumn
                  \/ c > body[i].originWorksheetLastColumn)
                 => dest'.cells[r][c] = dest.cells[r][c] ]_vars

====
